---- MODULE Spec2Model ----
(***************************************************************************)
(* Model of the restore orchestrator of aws-inventory-manager:             *)
(* ResourceCleaner.preview / ResourceCleaner.execute (restore/cleaner.py)  *)
(* with the collaborators they call: DeltaCalculator (delta/calculator.py),*)
(* SafetyChecker (restore/safety.py), ResourceDeleter (restore/deleter.py) *)
(* and AuditStorage (restore/audit.py).                                    *)
(*                                                                         *)
(* One behaviour is one invocation of preview or execute on one cleaner:   *)
(* Init fixes the environment (the stored baseline snapshot, what the      *)
(* current-state provider returns, the protection rules), the call action  *)
(* picks the arguments, and the following actions are the statements of    *)
(* the method in program order, one loop iteration per step.               *)
(***************************************************************************)
EXTENDS Integers, Sequences, FiniteSets, TLC

\* ---------------------------------------------------------------- bounds
\* longest list the current-state provider returns
MaxCurrent == 3

\* largest max_retries a ResourceDeleter is constructed with
MaxRetriesBound == 3

\* longest rule list a SafetyChecker is constructed with
MaxRules == 3

\* most edges a DependencyResolver's graph holds
MaxEdges == 3

\* most log_operation calls made on one AuditStorage
MaxLogs == 3

\* most resources in a snapshot handed to a DeltaCalculator
MaxSnapshot == 2

\* most checks a SecurityScanner has loaded
MaxChecks == 3

\* most ingress rules of a security group
MaxPermissions == 2

\* most elements of a list inside a configuration
MaxList == 2

\* ------------------------------------------------------------- constants
None == "None"

Instance == "AWS::EC2::Instance"
Bucket == "AWS::S3::Bucket"
GlueJob == "AWS::Glue::Job"
KmsKey == "AWS::KMS::Key"

East == "us-east-1"
West == "us-west-2"

\* ResourceDeleter.__init__: max_retries default, used by the cleaner
max_retries == 3

\* resource dicts the current-state provider can return; U4 is U1's ARN
\* reported a second time from another region
U1 == [arn |-> "arn:aws:a1", resource_type |-> Instance, region |-> East, resource_id |-> "i-1"]
U2 == [arn |-> "arn:aws:a2", resource_type |-> Bucket, region |-> West, resource_id |-> "b-2"]
U3 == [arn |-> "arn:aws:a3", resource_type |-> GlueJob, region |-> East, resource_id |-> "j-3"]
U4 == [arn |-> "arn:aws:a1", resource_type |-> Instance, region |-> West, resource_id |-> "i-1"]

Universe == {U1, U2, U3, U4}

\* a customer-managed key the current-state provider can return
K1 == [arn |-> "arn:aws:k1", resource_type |-> KmsKey, region |-> East, resource_id |-> "key-1"]

Accounts == {"111111111111", "222222222222"}

\* ------------------------------------------------------- generic helpers
Range(s) == {s[i] : i \in DOMAIN s}

\* all lists without repetition over S of length at most n
InjectiveSeqs(S, n) ==
    UNION {{s \in [1..k -> S] : \A i, j \in 1..k : i # j => s[i] # s[j]} : k \in 0..n}

\* all orders in which a set can be iterated
Orders(S) == {s \in [1..Cardinality(S) -> S] : Range(s) = S}

Contains(words, w) == \E i \in DOMAIN words : words[i] = w

\* ------------------------------------------ cleaner: dict <-> Resource
\* hashlib.sha256(arn + resource_type): a function of the two fields
ConfigHash(arn, resource_type) == <<"sha256", arn, resource_type>>

DictToResource(d) ==
    [arn |-> d.arn, resource_type |-> d.resource_type, name |-> d.resource_id,
     region |-> d.region, config_hash |-> ConfigHash(d.arn, d.resource_type)]

ResourceToDict(r) ==
    [arn |-> r.arn, resource_type |-> r.resource_type, region |-> r.region,
     resource_id |-> r.name]

\* ------------------------------------------------------ DeltaCalculator
\* {r.arn: r for r in resources}: a later entry replaces an earlier one
ArnIndex(resources) ==
    [a \in {resources[i].arn : i \in DOMAIN resources} |->
        LET last == CHOOSE i \in DOMAIN resources :
                        /\ resources[i].arn = a
                        /\ \A j \in DOMAIN resources : resources[j].arn = a => j <= i
        IN resources[last]]

MatchesFilters(resource, resource_type_filter, region_filter) ==
    /\ (resource_type_filter # {} => resource.resource_type \in resource_type_filter)
    /\ (region_filter # {} => resource.region \in region_filter)

AddedArnsAll(reference_index, current_index) == DOMAIN current_index

AddedArns(reference_index, current_index) ==
    DOMAIN current_index \ DOMAIN reference_index

\* the lists calculate() can return as added_resources: the set difference is
\* iterated in an unspecified order
AddedResources(reference, current) ==
    LET reference_index == ArnIndex(reference)
        current_index == ArnIndex(current)
        added_arns == AddedArns(reference_index, current_index)
        kept == {a \in added_arns : MatchesFilters(current_index[a], {}, {})}
    IN {[i \in DOMAIN order |-> current_index[order[i]]] : order \in Orders(kept)}

\* DeltaCalculator.calculate: the reports it can return; each of the three
\* sets of ARNs is iterated in an unspecified order
DeletedArnsAll(reference_index, current_index) == DOMAIN reference_index

DeletedArns(reference_index, current_index) ==
    DOMAIN reference_index \ DOMAIN current_index

ResourceChange(current_resource, reference_resource) ==
    [resource |-> current_resource, baseline_resource |-> reference_resource,
     change_type |-> "modified", old_config_hash |-> reference_resource.config_hash,
     new_config_hash |-> current_resource.config_hash]

Calculate(reference, current, resource_type_filter, region_filter) ==
    LET reference_index == ArnIndex(reference)
        current_index == ArnIndex(current)
        added == {a \in AddedArns(reference_index, current_index) :
                     MatchesFilters(current_index[a], resource_type_filter, region_filter)}
        deleted == {a \in DeletedArns(reference_index, current_index) :
                       MatchesFilters(reference_index[a], resource_type_filter, region_filter)}
        modified == {a \in DOMAIN reference_index \cap DOMAIN current_index :
                        /\ MatchesFilters(current_index[a], resource_type_filter, region_filter)
                        /\ reference_index[a].config_hash # current_index[a].config_hash}
    IN {[added_resources |-> [i \in DOMAIN oa |-> current_index[oa[i]]],
         deleted_resources |-> [i \in DOMAIN od |-> reference_index[od[i]]],
         modified_resources |->
             [i \in DOMAIN om |-> ResourceChange(current_index[om[i]], reference_index[om[i]])],
         baseline_resource_count |-> Len(reference),
         current_resource_count |-> Len(current)] :
            oa \in Orders(added), od \in Orders(deleted), om \in Orders(modified)}

\* DeltaReport.unchanged_count
UnchangedCount(report) ==
    report.baseline_resource_count - Len(report.deleted_resources)
        - Len(report.modified_resources)

\* ------------------------------------------------ cleaner._apply_filters
TypeAllowed(r, resource_types) == resource_types # {} => r.resource_type \in resource_types

RegionAllowedAny(r, regions) == TRUE

RegionAllowed(r, regions) == regions # {} => r.region \in regions

ApplyFilters(resources, resource_types, regions) ==
    LET Keep(r) == TypeAllowed(r, resource_types) /\ RegionAllowed(r, regions)
    IN SelectSeq(resources, Keep)

\* --------------------------------------------------------- SafetyChecker
\* ProtectionRule.matches for a rule of type TYPE: the resource type is one
\* of patterns.resource_types
RuleMatches(rule, resource) == resource.resource_type \in rule.resource_types

\* sorted(rules, key=priority): stable insertion sort
RECURSIVE SortByPriority(_)
SortByPriority(rs) ==
    IF Len(rs) <= 1 THEN rs
    ELSE LET head == SortByPriority(SubSeq(rs, 1, Len(rs) - 1))
             x == rs[Len(rs)]
             pos == Cardinality({i \in DOMAIN head : head[i].priority <= x.priority})
         IN SubSeq(head, 1, pos) \o <<x>> \o SubSeq(head, pos + 1, Len(head))

\* self.rules = sorted(rules, key=lambda r: r.priority)
SortedRulesAsGiven(rules) == rules

SortedRules(rules) == SortByPriority(rules)

GetProtectionReason(rule, resource) ==
    IF rule.description # ""
    THEN <<rule.description, "(rule:", rule.rule_id>>
    ELSE <<"Resource type", resource.resource_type, "protected", "(rule:", rule.rule_id>>

\* first enabled rule, in stored order, that matches; reason <<>> is None
IsProtected(sorted_rules, resource) ==
    LET hits == {i \in DOMAIN sorted_rules :
                    sorted_rules[i].enabled /\ RuleMatches(sorted_rules[i], resource)}
    IN IF hits = {} THEN [is_protected |-> FALSE, reason |-> <<>>]
       ELSE LET first == CHOOSE i \in hits : \A j \in hits : i <= j
            IN [is_protected |-> TRUE,
                reason |-> GetProtectionReason(sorted_rules[first], resource)]

\* rule lists handed to the SafetyChecker constructor
RuleChoices ==
    {<<>>,
     <<[rule_id |-> "keep-instances", priority |-> 5, enabled |-> TRUE,
        resource_types |-> {Instance}, description |-> "Production compute"]>>,
     <<[rule_id |-> "keep-buckets", priority |-> 2, enabled |-> TRUE,
        resource_types |-> {Bucket}, description |-> ""],
       [rule_id |-> "keep-instances-off", priority |-> 1, enabled |-> FALSE,
        resource_types |-> {Instance}, description |-> "Disabled"]>>}

\* ------------------------------------------------------- ResourceDeleter
\* keys of DELETION_METHODS among the modelled resource types
DELETION_METHODS == {Instance, Bucket, KmsKey}

\* the types whose method only schedules the deletion:
\* schedule_key_deletion with PendingWindowInDays
ScheduledDeletion == {KmsKey}

\* what one provider call can do: succeed; ClientError with a not-found
\* code; ClientError DependencyViolation; ClientError with another code;
\* ClientError with another code whose message quotes "DependencyViolation";
\* an exception that is not a ClientError
Outcomes == {"ok", "absent", "dependency", "denied", "denied_dv", "exception"}

\* _attempt_deletion without the branch for the not-found error codes
AttemptDeletionAbsentFails(o) ==
    CASE o = "ok" -> [success |-> TRUE, error |-> <<>>]
      [] o = "absent" -> [success |-> FALSE, error |-> <<"InvalidInstanceID.NotFound", "does not exist">>]
      [] o = "dependency" -> [success |-> FALSE, error |-> <<"DependencyViolation", "has dependents">>]
      [] o = "denied" -> [success |-> FALSE, error |-> <<"UnauthorizedOperation", "not allowed">>]
      [] o = "denied_dv" -> [success |-> FALSE, error |-> <<"OperationFailed", "DependencyViolation">>]
      [] o = "exception" -> [success |-> FALSE, error |-> <<"Unexpected error", "boom">>]

\* _attempt_deletion: (success, error); the error text is a list of words
\* and <<>> is None
AttemptDeletion(o) ==
    CASE o = "ok" -> [success |-> TRUE, error |-> <<>>]
      [] o = "absent" -> [success |-> TRUE, error |-> <<>>]
      [] o = "dependency" -> [success |-> FALSE, error |-> <<"DependencyViolation", "has dependents">>]
      [] o = "denied" -> [success |-> FALSE, error |-> <<"UnauthorizedOperation", "not allowed">>]
      [] o = "denied_dv" -> [success |-> FALSE, error |-> <<"OperationFailed", "DependencyViolation">>]
      [] o = "exception" -> [success |-> FALSE, error |-> <<"Unexpected error", "boom">>]

\* _attempt_deletion never raises: its last handler is 'except Exception'
AttemptRaisesUnexpected(o) == o = "exception"

AttemptRaises(o) == FALSE

\* wait_time = 2 ** attempt
BackoffConstant(attempt) == 1

Backoff(attempt) == 2 ^ attempt

\* for attempt in range(self.max_retries)
LoopContinuesOnceMore(attempt, retries) == attempt <= retries

LoopContinues(attempt, retries) == attempt < retries

\* f"Failed to delete ... after {self.max_retries} attempts"
ExhaustedMessage(retries) == <<"Failed to delete", "after", ToString(retries), "attempts">>

\* f"Unexpected error deleting {resource_type} {resource_id}: {str(e)}"
UnexpectedMessage == <<"Unexpected error deleting", "boom">>

\* the retry loop of delete_resource; attempt is range()'s 0-based counter,
\* waited the sum of the time.sleep arguments
RECURSIVE DeleteLoop(_, _, _)
DeleteLoop(outs, attempt, waited) ==
    IF attempt >= max_retries
    THEN [success |-> FALSE, error |-> ExhaustedMessage(max_retries),
          attempts |-> attempt, waited |-> waited]
    ELSE LET r == AttemptDeletion(outs[attempt + 1])
         IN IF r.success
            THEN [success |-> TRUE, error |-> <<>>, attempts |-> attempt + 1, waited |-> waited]
            ELSE IF Contains(r.error, "DependencyViolation")
            THEN IF attempt < max_retries - 1
                 THEN DeleteLoop(outs, attempt + 1, waited + Backoff(attempt))
                 ELSE DeleteLoop(outs, attempt + 1, waited)
            ELSE [success |-> FALSE, error |-> r.error, attempts |-> attempt + 1,
                  waited |-> waited]

DeleteResource(resource_type, outs) ==
    IF resource_type \notin DELETION_METHODS
    THEN [success |-> FALSE, error |-> <<"Unsupported resource type", resource_type>>,
          attempts |-> 0, waited |-> 0]
    ELSE DeleteLoop(outs, 0, 0)

\* the outcome of the last attempt delete_resource made
DecidingOutcome(resource_type, outs) ==
    IF resource_type \notin DELETION_METHODS THEN None
    ELSE outs[DeleteResource(resource_type, outs).attempts]

\* cleaner._delete_resource: the bool of delete_resource, the message is
\* only logged
CleanerDeleteResource(resource, outs) == DeleteResource(resource.resource_type, outs).success

\* ------------------------------------------------------ ResourceCleaner
\* if not confirmed: raise ValueError(...)
ConfirmationBypassed(c) == FALSE

ConfirmationMissing(c) == ~c

\* if snapshot_account != account_id: raise ValueError(...)
AccountIgnored(snapshot_account, account) == FALSE

AccountMismatch(snapshot_account, account) == snapshot_account # account

\* except (FileNotFoundError, ValueError): raise ValueError(...)
LoadFailed(outcome) == outcome \in {"FileNotFoundError", "ValueError"}

\* if is_protected: ... continue
SkipNothing(is_protected) == FALSE

SkipResource(is_protected) == is_protected

\* preview: protected_count += 1 for a protected resource
ProtectedCountAll(protected_count, is_protected) == protected_count + 1

ProtectedCount(protected_count, is_protected) ==
    IF is_protected THEN protected_count + 1 ELSE protected_count

\* protection_reason=reason or "Protected by safety rules"
ReasonOrDefault(reason) == IF reason = <<>> THEN <<"Protected by safety rules">> ELSE reason

DeletionRecord(record_id, op_id, resource, status, error_code, error_message, protection_reason) ==
    [record_id |-> record_id, operation_id |-> op_id,
     resource_id |-> resource.resource_id, resource_arn |-> resource.arn,
     resource_type |-> resource.resource_type, region |-> resource.region,
     status |-> status, error_code |-> error_code, error_message |-> error_message,
     protection_reason |-> protection_reason]

\* the status chosen after the loop of execute
FinalStatusNoPartial(succeeded, failed) ==
    IF failed > 0 THEN "failed" ELSE "completed"

FinalStatus(succeeded, failed) ==
    IF failed > 0
    THEN IF succeeded > 0 THEN "partial" ELSE "failed"
    ELSE "completed"

DeletionOperation(op_id, name, account, mode_, status, total, succeeded, failed, skipped) ==
    [operation_id |-> op_id, baseline_snapshot |-> name, account_id |-> account,
     mode |-> mode_, status |-> status, total_resources |-> total,
     succeeded_count |-> succeeded, failed_count |-> failed, skipped_count |-> skipped]

\* the operation preview builds
PreviewOperationExecuting(op_id, name, account, total, protected) ==
    DeletionOperation(op_id, name, account, "dry-run", "executing", total, 0, 0, protected)

PreviewOperation(op_id, name, account, total, protected) ==
    DeletionOperation(op_id, name, account, "dry-run", "planned", total, 0, 0, protected)

\* DeletionOperation.validate
Validate(o) ==
    /\ o.succeeded_count + o.failed_count + o.skipped_count = o.total_resources
    /\ (o.mode = "dry-run" => o.status = "planned")

\* for resource in filtered_resources: the loop goes on to the next element
\* whatever the outcome of the deletion
NextIndexStopOnFailure(index, n, success) == IF success THEN index + 1 ELSE n + 1

NextIndex(index, n, success) == index + 1

\* the records handed to audit_storage.log_operation
LoggedRecordsFailedOnly(records) == SelectSeq(records, LAMBDA r : r.status = "failed")

LoggedRecords(records) == records

\* the records list after a skipped resource
AfterSkipDropped(records, record) == records

AfterSkip(records, record) == Append(records, record)

\* ----------------------------------------------------------------- state
VARIABLES
    live,                \* what _collect_current_resources returns
    snapshot,            \* the stored baseline snapshot
    load_outcome,        \* what snapshot_storage.load_snapshot does
    rules,               \* SafetyChecker.rules
    pc,                  \* position in preview / execute
    method,              \* "preview" or "execute"
    confirmed, account_id, resource_types, regions,   \* arguments
    filtered_resources,  \* the candidates
    index,               \* next element of filtered_resources
    succeeded_count, failed_count, skipped_count,
    deletion_records,
    operation,           \* <<the DeletionOperation>> once the method has built it
    returned,            \* <<operation>> once the method has returned
    raised,              \* the exception that left the method
    calls,               \* calls made to the collaborators, in order
    audit                \* what AuditStorage has written

\* one call of ResourceDeleter.delete_resource
VARIABLES
    d_pc,                \* "off", "idle", "loop" or "done"
    d_max,               \* self.max_retries
    d_type,              \* the resource_type argument
    d_attempt,           \* the loop variable attempt
    d_events,            \* provider calls and time.sleep calls, in order
    d_result             \* <<(success, error)>> once delete_resource has returned

deleter_vars == <<d_pc, d_max, d_type, d_attempt, d_events, d_result>>

DeleterOff ==
    /\ d_pc = "off"
    /\ d_max = max_retries
    /\ d_type = None
    /\ d_attempt = 0
    /\ d_events = <<>>
    /\ d_result = <<>>

\* one SafetyChecker and its is_protected calls
VARIABLES
    s_pc,                \* "off", "new", "ready" or "called"
    s_given,             \* the rules argument of the constructor
    s_rules,             \* self.rules
    s_resource,          \* <<resource>> of the last is_protected call
    s_result             \* <<(is_protected, reason)>> of the last call

safety_vars == <<s_pc, s_given, s_rules, s_resource, s_result>>

SafetyOff ==
    /\ s_pc = "off"
    /\ s_given = <<>>
    /\ s_rules = <<>>
    /\ s_resource = <<>>
    /\ s_result = <<>>

\* resource ids a DependencyResolver is asked about
Ids == {"vpc", "subnet", "instance"}

\* one DependencyResolver and one call of compute_deletion_order
VARIABLES
    r_pc,                \* "off", "building", "sorting", "returned" or "raised"
    r_graph,             \* self.graph: child -> list of parents
    r_input,             \* the resource_ids argument
    r_in_degree,         \* in-degrees within the requested set
    r_queue,             \* ids whose in-degree is zero, not yet emitted
    r_order,             \* the order built so far
    r_result,            \* <<order>> once returned
    r_error              \* message of the raised ValueError

resolver_vars == <<r_pc, r_graph, r_input, r_in_degree, r_queue, r_order, r_result, r_error>>

ResolverOff ==
    /\ r_pc = "off"
    /\ r_graph = [i \in Ids |-> <<>>]
    /\ r_input = <<>>
    /\ r_in_degree = [i \in Ids |-> 0]
    /\ r_queue = <<>>
    /\ r_order = <<>>
    /\ r_result = <<>>
    /\ r_error = None

\* one AuditStorage directory
VARIABLES
    st_pc,               \* "off" or "ready"
    st_files,            \* the audit files under storage_dir: path and content
    st_logged,           \* the log_operation calls made, in order
    st_got               \* <<call>> of the last get_operation: id, result and
                         \* the number of log_operation calls made before it

storage_vars == <<st_pc, st_files, st_logged, st_got>>

StorageOff ==
    /\ st_pc = "off"
    /\ st_files = {}
    /\ st_logged = <<>>
    /\ st_got = <<>>

\* two calls in a row on one ResourceCleaner
VARIABLES
    run,                 \* 0 when single calls are looked at, else 1 or 2
    previous             \* <<first call>>: its method, its operation, the
                         \* resources it found unprotected and those it
                         \* called delete_resource for

session_vars == <<run, previous>>

SessionOff ==
    /\ run = 0
    /\ previous = <<>>

\* one call of a function that keeps no state between calls
VARIABLES
    call_pc,             \* "off", "ready", "done", or the loop the call is in
    call_args,           \* the arguments of the call
    call_result          \* <<what the call builds and returns>>

pure_vars == <<call_pc, call_args, call_result>>

PureOff ==
    /\ call_pc = "off"
    /\ call_args = <<>>
    /\ call_result = <<>>

\* the components that have no part in a behaviour of the cleaner
components_vars == <<deleter_vars, safety_vars, resolver_vars, storage_vars, pure_vars>>

ComponentsOff == DeleterOff /\ SafetyOff /\ ResolverOff /\ StorageOff /\ PureOff

\* what a call of a stateless function leaves alone
pure_rest == <<deleter_vars, safety_vars, resolver_vars, storage_vars, session_vars>>

PureRestOff == DeleterOff /\ SafetyOff /\ ResolverOff /\ StorageOff /\ SessionOff

other_vars == <<components_vars, session_vars>>

OthersOff == ComponentsOff /\ SessionOff

\* what a call of delete_resource leaves alone
deleter_rest == <<safety_vars, resolver_vars, storage_vars, session_vars, pure_vars>>

DeleterRestOff == SafetyOff /\ ResolverOff /\ StorageOff /\ SessionOff /\ PureOff

\* what a SafetyChecker leaves alone
safety_rest == <<deleter_vars, resolver_vars, storage_vars, session_vars, pure_vars>>

SafetyRestOff == DeleterOff /\ ResolverOff /\ StorageOff /\ SessionOff /\ PureOff

\* what a DependencyResolver leaves alone
resolver_rest == <<deleter_vars, safety_vars, storage_vars, session_vars, pure_vars>>

ResolverRestOff == DeleterOff /\ SafetyOff /\ StorageOff /\ SessionOff /\ PureOff

\* what an AuditStorage leaves alone
storage_rest == <<deleter_vars, safety_vars, resolver_vars, session_vars, pure_vars>>

StorageRestOff == DeleterOff /\ SafetyOff /\ ResolverOff /\ SessionOff /\ PureOff

env == <<live, snapshot, load_outcome, rules>>
args == <<method, confirmed, account_id, resource_types, regions>>
locals == <<filtered_resources, index, succeeded_count, failed_count, skipped_count,
            deletion_records, operation>>
cleaner_vars == <<env, args, locals, pc, returned, raised, calls, audit>>
vars == <<cleaner_vars, other_vars>>

NoError == [type |-> None, message |-> None]

Call(fn, resource, result) ==
    [fn |-> fn, resource |-> resource, result |-> result, error |-> <<>>, decided |-> None]

\* a call of deleter.delete_resource with what it returned: result and error
\* are the returned pair, decided the outcome of its last attempt
DeleteCall(resource, outs) ==
    LET d == DeleteResource(resource.resource_type, outs)
    IN [fn |-> "delete_resource", resource |-> <<resource>>, result |-> d.success,
        error |-> d.error, decided |-> DecidingOutcome(resource.resource_type, outs)]

\* the outcome sequences the provider can answer one delete_resource call
\* with, one for each distinct course of the call
OutcomeSequences(resource) ==
    LET all == [1..max_retries -> Outcomes]
        courses == {DeleteCall(resource, outs) : outs \in all}
    IN {CHOOSE outs \in all : DeleteCall(resource, outs) = c : c \in courses}

BaselineName == "baseline-snapshot"
OperationId == "op_uuid"

\* the baseline snapshots the store can hold
SnapshotChoices ==
    {[name |-> BaselineName, account_id |-> "111111111111", resources |-> rs] :
        rs \in {<<>>, <<DictToResource(U1)>>, <<DictToResource(U1), DictToResource(U2)>>}}

TypeFilters == {{}, {Instance}}
RegionFilters == {{}, {West}}

Init ==
    /\ live \in InjectiveSeqs(Universe, MaxCurrent)
    /\ snapshot \in SnapshotChoices
    /\ load_outcome \in {"ok", "FileNotFoundError", "ValueError"}
    /\ rules \in {SortByPriority(rs) : rs \in RuleChoices}
    /\ pc = "idle"
    /\ method = None
    /\ confirmed = FALSE
    /\ account_id = None
    /\ resource_types = {}
    /\ regions = {}
    /\ filtered_resources = <<>>
    /\ index = 1
    /\ succeeded_count = 0
    /\ failed_count = 0
    /\ skipped_count = 0
    /\ deletion_records = <<>>
    /\ operation = <<>>
    /\ returned = <<>>
    /\ raised = NoError
    /\ calls = <<>>
    /\ audit = <<>>
    /\ OthersOff

\* ----------------------------------------------------------- the actions
\* a caller invokes preview(baseline_snapshot, account_id, resource_types, regions)
PreviewCall ==
    /\ pc = "idle"
    /\ method' = "preview"
    /\ confirmed' = FALSE
    /\ account_id' \in Accounts
    /\ resource_types' \in TypeFilters
    /\ regions' \in RegionFilters
    /\ pc' = "load"
    /\ UNCHANGED <<other_vars, env, locals, returned, raised, calls, audit>>

\* a caller invokes execute(baseline_snapshot, account_id, confirmed, ...)
ExecuteCall ==
    /\ pc = "idle"
    /\ method' = "execute"
    /\ confirmed' \in BOOLEAN
    /\ account_id' \in Accounts
    /\ resource_types' \in TypeFilters
    /\ regions' \in RegionFilters
    /\ pc' = "confirm"
    /\ UNCHANGED <<other_vars, env, locals, returned, raised, calls, audit>>

\* execute: the confirmation guard
CheckConfirmed ==
    /\ pc = "confirm"
    /\ IF ConfirmationMissing(confirmed)
       THEN /\ pc' = "raised"
            /\ raised' = [type |-> "ValueError", message |-> "Deletion requires explicit confirmation"]
       ELSE /\ pc' = "load"
            /\ UNCHANGED raised
    /\ UNCHANGED <<other_vars, env, args, locals, returned, calls, audit>>

\* snapshot_storage.load_snapshot(baseline_snapshot) in its try block
LoadSnapshot ==
    /\ pc = "load"
    /\ calls' = Append(calls, Call("load_snapshot", <<>>, FALSE))
    /\ IF LoadFailed(load_outcome)
       THEN /\ pc' = "raised"
            /\ raised' = [type |-> "ValueError", message |-> "Snapshot not found"]
       ELSE /\ pc' = "account"
            /\ UNCHANGED raised
    /\ UNCHANGED <<other_vars, env, args, locals, returned, audit>>

\* the account check
ValidateAccount ==
    /\ pc = "account"
    /\ IF AccountMismatch(snapshot.account_id, account_id)
       THEN /\ pc' = "raised"
            /\ raised' = [type |-> "ValueError", message |-> "Account ID mismatch"]
       ELSE /\ pc' = "collect"
            /\ UNCHANGED raised
    /\ UNCHANGED <<other_vars, env, args, locals, returned, calls, audit>>

\* _collect_current_resources, the transient Snapshot, DeltaCalculator.calculate,
\* _resource_to_dict and _apply_filters
CollectAndFilter ==
    /\ pc = "collect"
    /\ calls' = Append(calls, Call("collect_current_resources", <<>>, FALSE))
    /\ \E added \in AddedResources(snapshot.resources,
                                   [i \in DOMAIN live |-> DictToResource(live[i])]) :
          filtered_resources' =
              ApplyFilters([i \in DOMAIN added |-> ResourceToDict(added[i])],
                           resource_types, regions)
    /\ index' = 1
    /\ succeeded_count' = 0
    /\ failed_count' = 0
    /\ skipped_count' = 0
    /\ deletion_records' = <<>>
    /\ operation' = <<>>
    /\ pc' = "loop"
    /\ UNCHANGED <<other_vars, env, args, returned, raised, audit>>

\* preview: one iteration of the protection loop; skipped_count holds the
\* local protected_count, which becomes the operation's skipped_count
PreviewStep ==
    /\ pc = "loop" /\ method = "preview"
    /\ index <= Len(filtered_resources)
    /\ LET resource == filtered_resources[index]
           p == IsProtected(rules, resource)
       IN /\ calls' = Append(calls, Call("is_protected", <<resource>>, p.is_protected))
          /\ skipped_count' = ProtectedCount(skipped_count, p.is_protected)
    /\ index' = index + 1
    /\ UNCHANGED <<other_vars, env, args, filtered_resources, succeeded_count, failed_count,
                   deletion_records, operation, pc, returned, raised, audit>>

\* preview: build the operation and return it
PreviewFinish ==
    /\ pc = "loop" /\ method = "preview"
    /\ index > Len(filtered_resources)
    /\ operation' = <<PreviewOperation(OperationId, BaselineName, account_id,
                                       Len(filtered_resources), skipped_count)>>
    /\ returned' = operation'
    /\ pc' = "returned"
    /\ UNCHANGED <<other_vars, env, args, filtered_resources, index, succeeded_count,
                   failed_count, skipped_count, deletion_records, raised, calls, audit>>

\* execute: one iteration of the deletion loop
ExecuteStep ==
    /\ pc = "loop" /\ method = "execute"
    /\ index <= Len(filtered_resources)
    /\ LET resource == filtered_resources[index]
           p == IsProtected(rules, resource)
           checked == Append(calls, Call("is_protected", <<resource>>, p.is_protected))
       IN IF SkipResource(p.is_protected)
          THEN /\ skipped_count' = skipped_count + 1
               /\ deletion_records' =
                     AfterSkip(deletion_records,
                               DeletionRecord(index, OperationId, resource, "skipped",
                                              None, <<>>, ReasonOrDefault(p.reason)))
               /\ calls' = checked
               /\ index' = index + 1
               /\ UNCHANGED <<succeeded_count, failed_count>>
          ELSE \E outs \in OutcomeSequences(resource) :
               LET success == CleanerDeleteResource(resource, outs)
               IN /\ calls' = Append(checked, DeleteCall(resource, outs))
                  /\ IF success
                     THEN /\ succeeded_count' = succeeded_count + 1
                          /\ deletion_records' =
                                Append(deletion_records,
                                       DeletionRecord(index, OperationId, resource,
                                                      "succeeded", None, <<>>, <<>>))
                          /\ UNCHANGED failed_count
                     ELSE /\ failed_count' = failed_count + 1
                          /\ deletion_records' =
                                Append(deletion_records,
                                       DeletionRecord(index, OperationId, resource, "failed",
                                                      "DeletionFailed",
                                                      <<"Resource deletion failed">>, <<>>))
                          /\ UNCHANGED succeeded_count
                  /\ index' = NextIndex(index, Len(filtered_resources), success)
                  /\ UNCHANGED skipped_count
    /\ UNCHANGED <<other_vars, env, args, filtered_resources, operation, pc, returned, raised,
                   audit>>

\* execute: final status, the operation, audit_storage.log_operation, return;
\* the write of the audit file can fail with an OSError, which leaves execute
ExecuteFinish ==
    /\ pc = "loop" /\ method = "execute"
    /\ index > Len(filtered_resources)
    /\ operation' = <<DeletionOperation(OperationId, BaselineName, account_id, "execute",
                                        FinalStatus(succeeded_count, failed_count),
                                        Len(filtered_resources), succeeded_count,
                                        failed_count, skipped_count)>>
    /\ calls' = Append(calls, Call("log_operation", <<>>, FALSE))
    /\ \/ /\ audit' = Append(audit, [operation |-> operation'[1],
                                     records |-> LoggedRecords(deletion_records)])
          /\ returned' = operation'
          /\ pc' = "returned"
          /\ UNCHANGED raised
       \/ /\ raised' = [type |-> "OSError", message |-> "audit log not written"]
          /\ pc' = "raised"
          /\ UNCHANGED <<audit, returned>>
    /\ UNCHANGED <<other_vars, env, args, filtered_resources, index, succeeded_count,
                   failed_count, skipped_count, deletion_records>>

Next ==
    \/ PreviewCall
    \/ ExecuteCall
    \/ CheckConfirmed
    \/ LoadSnapshot
    \/ ValidateAccount
    \/ CollectAndFilter
    \/ PreviewStep
    \/ PreviewFinish
    \/ ExecuteStep
    \/ ExecuteFinish

Spec == Init /\ [][Next]_vars

\* ---------------------------------------- two calls on one ResourceCleaner
\* what the current-state provider returns after the deletions of an execute
\* call: a resource whose deletion succeeded is gone, except that a deletion
\* which was only scheduled may leave it listed
AfterDeletionsNothingGone(resources, trace, listed) == resources

AfterDeletions(resources, trace, listed) ==
    LET deleted == {trace[j].resource[1].arn :
                       j \in {i \in DOMAIN trace :
                                 trace[i].fn = "delete_resource" /\ trace[i].result}}
    IN SelectSeq(resources, LAMBDA r : r.arn \notin deleted \/ r.arn \in listed)

\* the ARNs whose deletion the trace shows as scheduled only
PendingArns(trace) ==
    {trace[j].resource[1].arn :
        j \in {i \in DOMAIN trace :
                  /\ trace[i].fn = "delete_resource"
                  /\ trace[i].decided = "ok"
                  /\ trace[i].resource[1].resource_type \in ScheduledDeletion}}

\* the resources a trace shows as checked and found unprotected
UnprotectedIn(trace) ==
    {trace[j].resource[1] :
        j \in {i \in DOMAIN trace : trace[i].fn = "is_protected" /\ ~trace[i].result}}

\* the resources a trace shows delete_resource called for
AttemptedIn(trace) ==
    {trace[j].resource[1] : j \in {i \in DOMAIN trace : trace[i].fn = "delete_resource"}}

InitTwice ==
    /\ live \in InjectiveSeqs({U1, K1}, MaxCurrent)
    /\ snapshot \in SnapshotChoices
    /\ load_outcome = "ok"
    /\ rules \in {SortByPriority(rs) : rs \in RuleChoices}
    /\ pc = "idle"
    /\ method = None
    /\ confirmed = FALSE
    /\ account_id = None
    /\ resource_types = {}
    /\ regions = {}
    /\ filtered_resources = <<>>
    /\ index = 1
    /\ succeeded_count = 0
    /\ failed_count = 0
    /\ skipped_count = 0
    /\ deletion_records = <<>>
    /\ operation = <<>>
    /\ returned = <<>>
    /\ raised = NoError
    /\ calls = <<>>
    /\ audit = <<>>
    /\ ComponentsOff
    /\ run = 1
    /\ previous = <<>>

\* after the first call has returned, the caller invokes execute with the
\* same baseline, account and filters, confirmed
SecondCall ==
    /\ pc = "returned"
    /\ run = 1
    /\ run' = 2
    /\ previous' = <<[method |-> method, operation |-> returned[1],
                      unprotected |-> UnprotectedIn(calls), attempted |-> AttemptedIn(calls)]>>
    /\ IF method = "execute"
       THEN \E listed \in SUBSET PendingArns(calls) :
                live' = AfterDeletions(live, calls, listed)
       ELSE UNCHANGED live
    /\ method' = "execute"
    /\ confirmed' = TRUE
    /\ filtered_resources' = <<>>
    /\ index' = 1
    /\ succeeded_count' = 0
    /\ failed_count' = 0
    /\ skipped_count' = 0
    /\ deletion_records' = <<>>
    /\ operation' = <<>>
    /\ returned' = <<>>
    /\ calls' = <<>>
    /\ pc' = "confirm"
    /\ UNCHANGED <<components_vars, snapshot, load_outcome, rules, account_id,
                   resource_types, regions, raised, audit>>

NextTwice ==
    \/ Next
    \/ SecondCall

SpecTwice == InitTwice /\ [][NextTwice]_vars

\* ------------------------------------------------- execute, interrupted
\* the process is stopped, or an exception leaves the deletion loop, which
\* has no handler
Interrupt ==
    /\ pc = "loop" /\ method = "execute"
    /\ pc' = "raised"
    /\ raised' = [type |-> "KeyboardInterrupt", message |-> None]
    /\ UNCHANGED <<other_vars, env, args, locals, returned, calls, audit>>

NextInterrupted ==
    \/ Next
    \/ Interrupt

SpecInterrupted == Init /\ [][NextInterrupted]_vars

\* the cleaner at rest, for the specifications of its collaborators
CleanerOff ==
    /\ live = <<>>
    /\ snapshot = [name |-> BaselineName, account_id |-> "111111111111", resources |-> <<>>]
    /\ load_outcome = "ok"
    /\ rules = <<>>
    /\ pc = "off"
    /\ method = None
    /\ confirmed = FALSE
    /\ account_id = None
    /\ resource_types = {}
    /\ regions = {}
    /\ filtered_resources = <<>>
    /\ index = 1
    /\ succeeded_count = 0
    /\ failed_count = 0
    /\ skipped_count = 0
    /\ deletion_records = <<>>
    /\ operation = <<>>
    /\ returned = <<>>
    /\ raised = NoError
    /\ calls = <<>>
    /\ audit = <<>>

\* ------------------------------------- ResourceDeleter.delete_resource
Event(kind, n, outcome) == [kind |-> kind, n |-> n, outcome |-> outcome]

Result(success, error) == <<[success |-> success, error |-> error]>>

InitDeleter ==
    /\ CleanerOff
    /\ DeleterRestOff
    /\ d_pc = "idle"
    /\ d_max \in 1..MaxRetriesBound
    /\ d_type = None
    /\ d_attempt = 0
    /\ d_events = <<>>
    /\ d_result = <<>>

\* delete_resource is called: the check of the resource type
DeleteResourceCall ==
    /\ d_pc = "idle"
    /\ \E t \in {Instance, Bucket, GlueJob} :
          /\ d_type' = t
          /\ IF t \notin DELETION_METHODS
             THEN /\ d_result' = Result(FALSE, <<"Unsupported resource type", t>>)
                  /\ d_pc' = "done"
             ELSE /\ d_pc' = "loop"
                  /\ UNCHANGED d_result
    /\ UNCHANGED <<cleaner_vars, deleter_rest, d_max, d_attempt, d_events>>

\* one iteration of the retry loop: _attempt_deletion creates the client and
\* calls the provider, then the branches of delete_resource
DeleteAttempt ==
    /\ d_pc = "loop"
    /\ LoopContinues(d_attempt, d_max)
    /\ \E o \in Outcomes :
          LET tried == Append(d_events, Event("attempt", d_attempt, o))
              slept == Append(tried, Event("sleep", Backoff(d_attempt), None))
              r == AttemptDeletion(o)
          IN IF AttemptRaises(o)
             THEN IF d_attempt < d_max - 1
                  THEN /\ d_events' = slept
                       /\ d_attempt' = d_attempt + 1
                       /\ UNCHANGED <<d_pc, d_result>>
                  ELSE /\ d_events' = tried
                       /\ d_result' = Result(FALSE, UnexpectedMessage)
                       /\ d_pc' = "done"
                       /\ UNCHANGED d_attempt
             ELSE IF r.success
             THEN /\ d_events' = tried
                  /\ d_result' = Result(TRUE, <<>>)
                  /\ d_pc' = "done"
                  /\ UNCHANGED d_attempt
             ELSE IF Contains(r.error, "DependencyViolation")
             THEN /\ d_events' = IF d_attempt < d_max - 1 THEN slept ELSE tried
                  /\ d_attempt' = d_attempt + 1
                  /\ UNCHANGED <<d_pc, d_result>>
             ELSE /\ d_events' = tried
                  /\ d_result' = Result(FALSE, r.error)
                  /\ d_pc' = "done"
                  /\ UNCHANGED d_attempt
    /\ UNCHANGED <<cleaner_vars, deleter_rest, d_max, d_type>>

\* the loop is over: all retries exhausted
DeleteExhausted ==
    /\ d_pc = "loop"
    /\ ~LoopContinues(d_attempt, d_max)
    /\ d_result' = Result(FALSE, ExhaustedMessage(d_max))
    /\ d_pc' = "done"
    /\ UNCHANGED <<cleaner_vars, deleter_rest, d_max, d_type, d_attempt, d_events>>

NextDeleter ==
    \/ DeleteResourceCall
    \/ DeleteAttempt
    \/ DeleteExhausted

SpecDeleter == InitDeleter /\ [][NextDeleter]_vars

\* delete_resource is synchronous: once called it runs on
SpecDeleterFair == SpecDeleter /\ WF_vars(NextDeleter)

\* ------------------------------------------- SafetyChecker.is_protected
\* rules a configuration may hold; two of them share a priority
RulePool ==
    {[rule_id |-> "keep-instances", priority |-> 5, enabled |-> TRUE,
      resource_types |-> {Instance}, description |-> "Production compute"],
     [rule_id |-> "keep-compute", priority |-> 5, enabled |-> TRUE,
      resource_types |-> {Instance, Bucket}, description |-> ""],
     [rule_id |-> "keep-buckets", priority |-> 2, enabled |-> TRUE,
      resource_types |-> {Bucket}, description |-> "Data"],
     [rule_id |-> "keep-instances-off", priority |-> 1, enabled |-> FALSE,
      resource_types |-> {Instance, Bucket}, description |-> "Disabled"]}

InitSafety ==
    /\ CleanerOff
    /\ SafetyRestOff
    /\ s_pc = "new"
    /\ s_given = <<>>
    /\ s_rules = <<>>
    /\ s_resource = <<>>
    /\ s_result = <<>>

\* SafetyChecker(rules)
SafetyCheckerInit ==
    /\ s_pc = "new"
    /\ \E given \in InjectiveSeqs(RulePool, MaxRules) :
          /\ s_given' = given
          /\ s_rules' = SortedRules(given)
    /\ s_pc' = "ready"
    /\ UNCHANGED <<cleaner_vars, safety_rest, s_resource, s_result>>

\* checker.is_protected(resource)
IsProtectedCall ==
    /\ s_pc \in {"ready", "called"}
    /\ \E resource \in Universe :
          /\ s_resource' = <<resource>>
          /\ s_result' = <<IsProtected(s_rules, resource)>>
    /\ s_pc' = "called"
    /\ UNCHANGED <<cleaner_vars, safety_rest, s_given, s_rules>>

NextSafety ==
    \/ SafetyCheckerInit
    \/ IsProtectedCall

SpecSafety == InitSafety /\ [][NextSafety]_vars

\* ------------------------------ DependencyResolver.compute_deletion_order
\* graph[child] += [parent], deduplicated
AddEdge(graph, parent, child) ==
    IF Contains(graph[child], parent) THEN graph
    ELSE [graph EXCEPT ![child] = Append(@, parent)]

RECURSIVE SumOver(_, _)
SumOver(f, S) ==
    IF S = {} THEN 0
    ELSE LET x == CHOOSE x \in S : TRUE IN f[x] + SumOver(f, S \ {x})

EdgeCount(graph) == SumOver([i \in Ids |-> Len(graph[i])], Ids)

\* the parents of a node that are in the requested set, in stored order
ParentsIn(graph, node, requested) ==
    SelectSeq(graph[node], LAMBDA parent : parent \in requested)

\* in-degree of every requested id, counting only edges inside the set
InDegree(graph, requested) ==
    [i \in Ids |->
        IF i \in requested
        THEN Cardinality({child \in requested : Contains(graph[child], i)})
        ELSE 0]

\* an id enters the queue when nothing in the set must go before it
ReadyAlways(in_degree, id) == TRUE

Ready(in_degree, id) == in_degree[id] = 0

\* fewer ids emitted than requested: what is left lies on a cycle
CycleDetectedNever(order, input) == FALSE

CycleDetected(order, input) == Len(order) # Len(input)

InitResolver ==
    /\ CleanerOff
    /\ ResolverRestOff
    /\ r_pc = "building"
    /\ r_graph = [i \in Ids |-> <<>>]
    /\ r_input = <<>>
    /\ r_in_degree = [i \in Ids |-> 0]
    /\ r_queue = <<>>
    /\ r_order = <<>>
    /\ r_result = <<>>
    /\ r_error = None

\* resolver.add_dependency(parent, child)
AddDependency ==
    /\ r_pc = "building"
    /\ EdgeCount(r_graph) < MaxEdges
    /\ \E parent, child \in Ids : r_graph' = AddEdge(r_graph, parent, child)
    /\ UNCHANGED <<cleaner_vars, resolver_rest, r_pc, r_input, r_in_degree, r_queue,
                   r_order, r_result, r_error>>

\* compute_deletion_order(resource_ids): in-degrees and the first queue
ComputeDeletionOrderCall ==
    /\ r_pc = "building"
    /\ \E input \in InjectiveSeqs(Ids, Cardinality(Ids)) :
          LET in_degree == InDegree(r_graph, Range(input))
          IN /\ r_input' = input
             /\ r_in_degree' = in_degree
             /\ r_queue' = SelectSeq(input, LAMBDA id : Ready(in_degree, id))
    /\ r_order' = <<>>
    /\ r_pc' = "sorting"
    /\ UNCHANGED <<cleaner_vars, resolver_rest, r_graph, r_result, r_error>>

\* one round of Kahn's algorithm: emit the head of the queue and release
\* its parents
KahnStep ==
    /\ r_pc = "sorting"
    /\ r_queue # <<>>
    /\ LET node == Head(r_queue)
           parents == ParentsIn(r_graph, node, Range(r_input))
           in_degree == [i \in Ids |->
                           IF Contains(parents, i) THEN r_in_degree[i] - 1
                           ELSE r_in_degree[i]]
       IN /\ r_order' = Append(r_order, node)
          /\ r_in_degree' = in_degree
          /\ r_queue' = Tail(r_queue) \o SelectSeq(parents, LAMBDA id : Ready(in_degree, id))
    /\ UNCHANGED <<cleaner_vars, resolver_rest, r_pc, r_graph, r_input, r_result, r_error>>

\* the queue is empty: return the order, or raise when ids are left over
ComputeDeletionOrderFinish ==
    /\ r_pc = "sorting"
    /\ r_queue = <<>>
    /\ IF CycleDetected(r_order, r_input)
       THEN /\ r_pc' = "raised"
            /\ r_error' = "Circular dependency detected"
            /\ UNCHANGED r_result
       ELSE /\ r_pc' = "returned"
            /\ r_result' = <<r_order>>
            /\ UNCHANGED r_error
    /\ UNCHANGED <<cleaner_vars, resolver_rest, r_graph, r_input, r_in_degree, r_queue,
                   r_order>>

NextResolver ==
    \/ AddDependency
    \/ ComputeDeletionOrderCall
    \/ KahnStep
    \/ ComputeDeletionOrderFinish

SpecResolver == InitResolver /\ [][NextResolver]_vars

\* ------------------------------------------------------------ AuditStorage
OperationIds == {"op_1", "op_2"}

\* operation.timestamp, as far as the year and the month
Timestamps == {[year |-> 2025, month |-> 11], [year |-> 2025, month |-> 12]}

\* the operations a caller may log
Operations ==
    [operation_id : OperationIds, timestamp : Timestamps, succeeded_count : 0..1]

\* f"{month:02d}"
TwoDigits(month) == IF month < 10 THEN <<"0", ToString(month)>> ELSE <<ToString(month)>>

\* storage_dir / str(year) / f"{month:02d}" / f"operation-{operation_id}.yaml"
AuditFile(year, month, operation_id) ==
    <<ToString(year), TwoDigits(month), <<"operation-", operation_id, ".yaml">>>>

\* timestamp.isoformat() + "Z"
IsoFormatZ(timestamp) == <<timestamp.year, timestamp.month, "Z">>

\* the audit_data written as YAML and read back by yaml.safe_load
AuditData(op) ==
    [operation_id |-> op.operation_id,
     timestamp |-> IsoFormatZ(op.timestamp),
     succeeded_count |-> op.succeeded_count]

\* open(audit_file, "w"): the file at this path is replaced, others stay
WriteFile(files, path, data) ==
    {f \in files : f.path # path} \cup {[path |-> path, data |-> data]}

\* the files get_operation's scan can find for an id, over every year and
\* month directory
FilesOf(files, operation_id) ==
    {f \in files : f.path[3] = <<"operation-", operation_id, ".yaml">>}

InitStorage ==
    /\ CleanerOff
    /\ StorageRestOff
    /\ st_pc = "ready"
    /\ st_files = {}
    /\ st_logged = <<>>
    /\ st_got = <<>>

\* storage.log_operation(operation, records)
LogOperation ==
    /\ st_pc = "ready"
    /\ Len(st_logged) < MaxLogs
    /\ \E op \in Operations :
          /\ st_files' = WriteFile(st_files,
                                   AuditFile(op.timestamp.year, op.timestamp.month,
                                             op.operation_id),
                                   AuditData(op))
          /\ st_logged' = Append(st_logged, op)
    /\ UNCHANGED <<cleaner_vars, storage_rest, st_pc, st_got>>

Got(operation_id, result) ==
    <<[operation_id |-> operation_id, result |-> result, after |-> Len(st_logged)]>>

\* storage.get_operation(operation_id): the first file the scan meets; the
\* order glob yields the directories in is the file system's
GetOperation ==
    /\ st_pc = "ready"
    /\ \E operation_id \in OperationIds :
          IF FilesOf(st_files, operation_id) = {}
          THEN st_got' = Got(operation_id, <<>>)
          ELSE \E f \in FilesOf(st_files, operation_id) :
                   st_got' = Got(operation_id, <<f.data>>)
    /\ UNCHANGED <<cleaner_vars, storage_rest, st_pc, st_files, st_logged>>

NextStorage ==
    \/ LogOperation
    \/ GetOperation

SpecStorage == InitStorage /\ [][NextStorage]_vars

\* ------------------------------------------- DeltaCalculator.calculate
\* resources the two snapshots can hold: one ARN with two configurations,
\* and two more ARNs
SnapshotPool ==
    {[arn |-> "arn:aws:a1", resource_type |-> Instance, name |-> "i-1", region |-> East,
      config_hash |-> "h1"],
     [arn |-> "arn:aws:a1", resource_type |-> Instance, name |-> "i-1", region |-> East,
      config_hash |-> "h2"],
     [arn |-> "arn:aws:a2", resource_type |-> Bucket, name |-> "b-2", region |-> West,
      config_hash |-> "h1"],
     [arn |-> "arn:aws:a3", resource_type |-> Bucket, name |-> "b-3", region |-> East,
      config_hash |-> "h1"]}

InitDelta ==
    /\ CleanerOff
    /\ PureRestOff
    /\ call_pc = "ready"
    /\ call_args \in [reference : InjectiveSeqs(SnapshotPool, MaxSnapshot),
                       current : InjectiveSeqs(SnapshotPool, MaxSnapshot),
                       resource_type_filter : TypeFilters,
                       region_filter : RegionFilters]
    /\ call_result = <<>>

\* DeltaCalculator(reference, current).calculate(resource_type_filter, region_filter)
CalculateCall ==
    /\ call_pc = "ready"
    /\ \E report \in Calculate(call_args.reference, call_args.current,
                                call_args.resource_type_filter, call_args.region_filter) :
          call_result' = <<report>>
    /\ call_pc' = "done"
    /\ UNCHANGED <<cleaner_vars, pure_rest, call_args>>

NextDelta == CalculateCall

SpecDelta == InitDelta /\ [][NextDelta]_vars

\* ------------------------------------------------------------ properties
DeleteCalls == {i \in DOMAIN calls : calls[i].fn = "delete_resource"}
ProtectionCalls == {i \in DOMAIN calls : calls[i].fn = "is_protected"}
LogCalls == {i \in DOMAIN calls : calls[i].fn = "log_operation"}
RecordsOf(records, arn) == {k \in DOMAIN records : records[k].resource_arn = arn}
WithStatus(records, status) == {k \in DOMAIN records : records[k].status = status}
LiveArns == {live[i].arn : i \in DOMAIN live}
BaselineArns == {snapshot.resources[i].arn : i \in DOMAIN snapshot.resources}

\* C1: execute called with confirmed=false raises the confirmation ValueError
\* and, in that invocation, calls none of its collaborators: no load_snapshot,
\* no collection of current resources, no safety check, no deletion, no audit
\* write.
C1_UnconfirmedExecuteCallsNothing ==
    (method = "execute" /\ ~confirmed) =>
        /\ calls = <<>>
        /\ audit = <<>>
        /\ returned = <<>>
        /\ pc \in {"confirm", "raised"}
        /\ (pc = "raised" =>
                /\ raised.type = "ValueError"
                /\ raised.message = "Deletion requires explicit confirmation")

C1_Witness ==
    /\ method = "execute" /\ ~confirmed /\ pc = "raised"
    /\ load_outcome = "ok" /\ snapshot.account_id = account_id
    /\ LiveArns \ BaselineArns # {}

\* C2: in execute a resource for which is_protected returned true is never
\* handed to the deletion strategy and gets exactly one record, SKIPPED with a
\* non-empty protection_reason; every deletion is directly preceded by
\* is_protected returning false for the same resource.
C2_ProtectedResourcesAreSkipped ==
    method = "execute" =>
        /\ \A i \in DeleteCalls :
              /\ i > 1
              /\ calls[i - 1] = Call("is_protected", calls[i].resource, FALSE)
        /\ \A i \in ProtectionCalls :
              calls[i].result =>
                  LET r == calls[i].resource[1]
                  IN /\ \A j \in DeleteCalls : calls[j].resource[1].arn # r.arn
                     /\ Cardinality(RecordsOf(deletion_records, r.arn)) = 1
                     /\ \A k \in RecordsOf(deletion_records, r.arn) :
                           /\ deletion_records[k].status = "skipped"
                           /\ deletion_records[k].protection_reason # <<>>

C2_Witness ==
    /\ method = "execute" /\ pc = "returned"
    /\ WithStatus(deletion_records, "skipped") # {}
    /\ DeleteCalls # {}

\* C3: every resource execute hands to the deletion strategy has an ARN that
\* was collected as current state and is not in the baseline snapshot, and
\* matches the resource_types and regions allow-lists when they are given
\* (an empty list counts as not given).
C3_OnlyAddedResourcesAreDeleted ==
    \A i \in DeleteCalls :
        LET r == calls[i].resource[1]
        IN /\ r.arn \in LiveArns \ BaselineArns
           /\ (resource_types # {} => r.resource_type \in resource_types)
           /\ (regions # {} => r.region \in regions)

C3_Witness ==
    /\ DeleteCalls # {}
    /\ LiveArns \cap BaselineArns # {}
    /\ regions # {}
    /\ \E i \in DOMAIN live : live[i].region \notin regions /\ live[i].arn \notin BaselineArns

\* C4: when the snapshot cannot be loaded or its account_id differs from the
\* account_id argument, preview and execute raise ValueError; nothing is
\* collected, checked, deleted or logged, and no operation is returned.
C4_SnapshotErrorsStopEverything ==
    (method # None /\ (load_outcome # "ok" \/ snapshot.account_id # account_id)) =>
        /\ \A i \in DOMAIN calls : calls[i].fn = "load_snapshot"
        /\ audit = <<>>
        /\ returned = <<>>
        /\ pc \in {"confirm", "load", "account", "raised"}
        /\ (pc = "raised" => raised.type = "ValueError")

C4_Witness ==
    /\ method = "execute" /\ confirmed /\ pc = "raised"
    /\ load_outcome = "ok" /\ snapshot.account_id # account_id
    /\ LiveArns \ BaselineArns # {}

C4_WitnessNotFound ==
    /\ method = "preview" /\ pc = "raised" /\ load_outcome = "FileNotFoundError"

\* C5: preview never calls the deletion strategy nor log_operation, and the
\* operation it returns has mode DRY_RUN, status PLANNED, succeeded_count 0
\* and failed_count 0.
C5_PreviewIsDryRun ==
    method = "preview" =>
        /\ DeleteCalls = {}
        /\ LogCalls = {}
        /\ audit = <<>>
        /\ (pc = "returned" =>
                /\ Len(returned) = 1
                /\ returned[1].mode = "dry-run"
                /\ returned[1].status = "planned"
                /\ returned[1].succeeded_count = 0
                /\ returned[1].failed_count = 0)

C5_Witness ==
    /\ method = "preview" /\ pc = "returned"
    /\ returned[1].total_resources >= 2
    /\ returned[1].skipped_count >= 1
    /\ returned[1].skipped_count < returned[1].total_resources

\* C6: the operation execute returns has succeeded + failed + skipped equal to
\* total_resources, and the records logged with it are one per candidate, with
\* as many SUCCEEDED, FAILED and SKIPPED records as the three counts say, all
\* carrying the operation's operation_id.
C6_ExecuteCountsMatchRecords ==
    (method = "execute" /\ pc = "returned") =>
        LET op == returned[1]
            logged == audit[Len(audit)].records
        IN /\ op.succeeded_count + op.failed_count + op.skipped_count = op.total_resources
           /\ Len(logged) = op.total_resources
           /\ op.total_resources = Len(filtered_resources)
           /\ \A i \in DOMAIN filtered_resources :
                 Cardinality(RecordsOf(logged, filtered_resources[i].arn)) = 1
           /\ Cardinality(WithStatus(logged, "succeeded")) = op.succeeded_count
           /\ Cardinality(WithStatus(logged, "failed")) = op.failed_count
           /\ Cardinality(WithStatus(logged, "skipped")) = op.skipped_count
           /\ \A k \in DOMAIN logged : logged[k].operation_id = op.operation_id

C6_Witness ==
    /\ method = "execute" /\ pc = "returned"
    /\ returned[1].succeeded_count >= 1
    /\ returned[1].failed_count >= 1
    /\ returned[1].skipped_count >= 1

\* C7: every operation preview returns satisfies the count invariant of
\* DeletionOperation.validate: succeeded + failed + skipped = total_resources.
C7_PreviewOperationValidates ==
    (method = "preview" /\ pc = "returned") => Validate(returned[1])

\* C8: the status of the operation execute returns depends on its counts
\* only: FAILED iff nothing succeeded and something failed, PARTIAL iff
\* something succeeded and something failed, COMPLETED otherwise; never
\* EXECUTING or PLANNED.
C8_FinalStatusFromCounts ==
    (method = "execute" /\ pc = "returned") =>
        LET op == returned[1]
        IN /\ (op.status = "failed") <=> (op.succeeded_count = 0 /\ op.failed_count > 0)
           /\ (op.status = "partial") <=> (op.succeeded_count > 0 /\ op.failed_count > 0)
           /\ (op.status = "completed") <=> (op.failed_count = 0)
           /\ op.status \in {"failed", "partial", "completed"}

C8_Witness ==
    /\ method = "execute" /\ pc = "returned"
    /\ returned[1].status = "partial"
    /\ returned[1].skipped_count > 0

C8_WitnessAllSkipped ==
    /\ method = "execute" /\ pc = "returned"
    /\ returned[1].status = "completed"
    /\ returned[1].skipped_count = returned[1].total_resources
    /\ returned[1].total_resources > 0

\* C9: an execute that runs to completion has called log_operation exactly
\* once, as its last call and after the last candidate was processed, with
\* the returned operation and all records of the run; nothing is logged while
\* the loop runs.
C9_LoggedOnceAtTheEnd ==
    method = "execute" =>
        /\ \A i \in LogCalls :
              /\ i = Len(calls)
              /\ index > Len(filtered_resources)
              /\ \A k \in DOMAIN filtered_resources :
                    \E j \in ProtectionCalls :
                        j < i /\ calls[j].resource = <<filtered_resources[k]>>
        /\ (pc = "loop" => audit = <<>> /\ LogCalls = {})
        /\ (pc = "returned" =>
                /\ Cardinality(LogCalls) = 1
                /\ Len(audit) = 1
                /\ audit[1].operation = returned[1]
                /\ audit[1].records = deletion_records)

C9_Witness ==
    /\ method = "execute" /\ pc = "returned"
    /\ Len(filtered_resources) >= 2
    /\ Cardinality(DeleteCalls) >= 2
    /\ WithStatus(deletion_records, "succeeded") # {}

\* C10: a failed deletion does not abort execute: each candidate, also after
\* a failed one, is checked and (when unprotected) attempted; the failure is
\* a FAILED record and one unit of failed_count; execute leaves with an
\* exception only for a missing confirmation, a snapshot error or an audit
\* write error.
C10_FailureDoesNotAbort ==
    method = "execute" =>
        /\ (pc = "loop" => Len(deletion_records) = index - 1)
        /\ (pc \in {"loop", "returned"} \/ LogCalls # {}) =>
              /\ \A k \in 1..Len(deletion_records) :
                    /\ deletion_records[k].resource_arn = filtered_resources[k].arn
                    /\ \E j \in ProtectionCalls : calls[j].resource = <<filtered_resources[k]>>
                    /\ deletion_records[k].status # "skipped" =>
                          \E j \in DeleteCalls : calls[j].resource = <<filtered_resources[k]>>
              /\ failed_count = Cardinality({j \in DeleteCalls : ~calls[j].result})
              /\ \A j \in DeleteCalls :
                    ~calls[j].result =>
                        \E k \in WithStatus(deletion_records, "failed") :
                            deletion_records[k].resource_arn = calls[j].resource[1].arn
        /\ (LogCalls # {} => Len(deletion_records) = Len(filtered_resources))
        /\ (pc = "raised" =>
                raised.message \in {"Deletion requires explicit confirmation",
                                    "Snapshot not found", "Account ID mismatch",
                                    "audit log not written"})

C10_Witness ==
    /\ method = "execute" /\ pc = "returned"
    /\ Len(deletion_records) >= 2
    /\ deletion_records[1].status = "failed"
    /\ deletion_records[2].status = "succeeded"

\* C11: the FAILED record execute emits for a resource carries the error
\* the deletion strategy returned for that resource (for a provider error its
\* code and message).
C11_FailedRecordCarriesReturnedError ==
    method = "execute" =>
        \A j \in DeleteCalls :
            ~calls[j].result =>
                \A k \in RecordsOf(deletion_records, calls[j].resource[1].arn) :
                    /\ deletion_records[k].status = "failed"
                    /\ deletion_records[k].error_message = calls[j].error
                    /\ (calls[j].decided = "denied" =>
                            deletion_records[k].error_code = calls[j].error[1])

\* ------------------------------------- properties of delete_resource
AttemptEvents == {i \in DOMAIN d_events : d_events[i].kind = "attempt"}

SleepEvents == {i \in DOMAIN d_events : d_events[i].kind = "sleep"}

RECURSIVE SumOfWaits(_)
SumOfWaits(events) ==
    IF events = <<>> THEN 0
    ELSE (IF Head(events).kind = "sleep" THEN Head(events).n ELSE 0) + SumOfWaits(Tail(events))

RECURSIVE SumOfPowers(_)
SumOfPowers(n) == IF n = 0 THEN 0 ELSE 2 ^ (n - 1) + SumOfPowers(n - 1)

Returned == d_pc = "done"

\* the attempt at position i is the last thing delete_resource did before it
\* returned: no wait and no further attempt follow it
IsLastAndReturned(i) == i = Len(d_events) /\ Returned

\* C12: delete_resource retries on dependency violations with exponential
\* backoff: attempt k (0-based) failing with a dependency violation is
\* followed by a wait of 2^k seconds and then by attempt k+1, as long as
\* k+1 < max_retries; a successful attempt returns (True, None) at once;
\* when all max_retries attempts fail with dependency violations exactly
\* max_retries attempts were made and the failure names their number.
C12_RetriesWithExponentialBackoff ==
    /\ \A i \in AttemptEvents :
          (d_events[i].outcome = "dependency" /\ d_events[i].n + 1 < d_max) =>
              /\ i + 1 <= Len(d_events)
              /\ d_events[i + 1] = Event("sleep", 2 ^ d_events[i].n, None)
              /\ (Returned => i + 2 <= Len(d_events))
              /\ (i + 2 <= Len(d_events) =>
                      /\ d_events[i + 2].kind = "attempt"
                      /\ d_events[i + 2].n = d_events[i].n + 1)
    /\ \A i \in AttemptEvents :
          d_events[i].outcome = "ok" =>
              IsLastAndReturned(i) /\ d_result = Result(TRUE, <<>>)
    /\ (Returned /\ d_type \in DELETION_METHODS
           /\ \A i \in AttemptEvents : d_events[i].outcome = "dependency") =>
              /\ Cardinality(AttemptEvents) = d_max
              /\ ~d_result[1].success
              /\ Contains(d_result[1].error, ToString(d_max))
              /\ Contains(d_result[1].error, "attempts")

C12_Witness ==
    /\ Returned /\ d_max = 3
    /\ Cardinality(AttemptEvents) = 3
    /\ \A i \in AttemptEvents : d_events[i].outcome = "dependency"
    /\ SumOfWaits(d_events) = 3
    /\ ~d_result[1].success

\* C13: for any max_retries >= 1 and any sequence of attempt outcomes,
\* delete_resource of a supported type terminates after at least 1 and at
\* most max_retries attempts, and the sum of its backoff waits never exceeds
\* sum(2^i for i in 0..max_retries-1) seconds.
C13_TerminatesWithinBounds ==
    /\ [](/\ Cardinality(AttemptEvents) <= d_max
          /\ SumOfWaits(d_events) <= SumOfPowers(d_max)
          /\ (Returned /\ d_type \in DELETION_METHODS => Cardinality(AttemptEvents) >= 1))
    /\ (d_pc = "loop" ~> Returned)

C13_Witness ==
    /\ Returned /\ d_max = MaxRetriesBound
    /\ Cardinality(AttemptEvents) = d_max
    /\ Cardinality(SleepEvents) = d_max - 1
    /\ \E i \in AttemptEvents : d_events[i].outcome = "denied_dv"

C15_OtherErrorsFailAtOnce ==
    /\ \A i \in AttemptEvents :
          d_events[i].outcome \in {"denied", "denied_dv"} =>
              /\ IsLastAndReturned(i)
              /\ d_result = Result(FALSE, AttemptDeletion(d_events[i].outcome).error)
    /\ (d_pc # "idle" /\ d_type \notin DELETION_METHODS) =>
              /\ Returned /\ d_events = <<>>
              /\ ~d_result[1].success

\* C16 as stated: an unexpected (non-provider) exception in an attempt is
\* retried until max_retries attempts have been made, and only then does
\* delete_resource return the 'unexpected error' failure.
C16_UnexpectedExceptionIsRetried ==
    \A i \in AttemptEvents :
        d_events[i].outcome = "exception" =>
            /\ (d_events[i].n + 1 < d_max => ~IsLastAndReturned(i))
            /\ (Returned /\ i = Len(d_events) => Cardinality(AttemptEvents) = d_max)

\* C16: an unexpected (non-provider) exception in an attempt, whose text does
\* not mention DependencyViolation, ends delete_resource with that attempt:
\* no retry, no wait, and the failure 'Unexpected error: <text>'.
C16_UnexpectedExceptionFailsAtOnce ==
    \A i \in AttemptEvents :
        d_events[i].outcome = "exception" =>
            /\ IsLastAndReturned(i)
            /\ d_result = Result(FALSE, <<"Unexpected error", "boom">>)

C16_Witness ==
    /\ Returned /\ d_max >= 2
    /\ d_events = <<Event("attempt", 0, "exception")>>
    /\ ~d_result[1].success

\* ---------------------------------------------- properties of is_protected
\* positions, in the constructor's list, of the enabled rules that match
MatchingGiven(resource) ==
    {i \in DOMAIN s_given : s_given[i].enabled /\ RuleMatches(s_given[i], resource)}

\* those of them with the smallest priority number
LowestPriority(resource) ==
    {i \in MatchingGiven(resource) :
        \A j \in MatchingGiven(resource) : s_given[i].priority <= s_given[j].priority}

\* C17 as stated: is_protected returns (true, reason) iff some enabled rule
\* matches; the reason is that of the matching enabled rule with the smallest
\* priority number, whatever the order the constructor got the rules in;
\* disabled rules never protect; otherwise it returns (false, None).
C17_LowestPriorityWhateverTheOrder ==
    s_pc = "called" =>
        LET resource == s_resource[1]
            result == s_result[1]
        IN /\ result.is_protected <=> MatchingGiven(resource) # {}
           /\ (MatchingGiven(resource) = {} => result.reason = <<>>)
           /\ \A i \in LowestPriority(resource) :
                 result.reason = GetProtectionReason(s_given[i], resource)
           /\ \A other \in Orders(Range(s_given)) :
                 IsProtected(SortedRules(other), resource) = result

\* C17: is_protected returns (true, reason) iff some enabled rule matches;
\* the reason is that of the matching enabled rule with the smallest priority
\* number and, among several of that priority, of the one given first to the
\* constructor; disabled rules never protect; otherwise it returns
\* (false, None).
C17_LowestPriorityFirstGiven ==
    s_pc = "called" =>
        LET resource == s_resource[1]
            result == s_result[1]
        IN /\ result.is_protected <=> MatchingGiven(resource) # {}
           /\ (MatchingGiven(resource) = {} => result.reason = <<>>)
           /\ \A i \in LowestPriority(resource) :
                 (\A j \in LowestPriority(resource) : i <= j) =>
                     result.reason = GetProtectionReason(s_given[i], resource)

C17_Witness ==
    /\ s_pc = "called"
    /\ Len(s_given) = 3
    /\ s_given[1].priority > s_given[2].priority
    /\ ~s_given[3].enabled
    /\ RuleMatches(s_given[3], s_resource[1])
    /\ MatchingGiven(s_resource[1]) = {1, 2}
    /\ s_result[1].reason = GetProtectionReason(s_given[2], s_resource[1])

\* ------------------------------------ properties of compute_deletion_order
\* the registered edges <<child, parent>> with both ends in a set of ids
EdgesWithin(graph, S) ==
    {e \in S \X S : Contains(graph[e[1]], e[2])}

\* a directed graph has a cycle iff some non-empty set of nodes has, for each
\* of its nodes, a successor inside the set
HasCycle(graph, S) ==
    \E T \in SUBSET S :
        /\ T # {}
        /\ \A x \in T : \E y \in T : <<x, y>> \in EdgesWithin(graph, S)

IndexOf(order, id) == CHOOSE i \in DOMAIN order : order[i] = id

IsPermutation(order, input) ==
    /\ Len(order) = Len(input)
    /\ Range(order) = Range(input)

Finished == r_pc \in {"returned", "raised"}

\* C18: for an acyclic set of registered dependencies and any list of
\* resource ids, compute_deletion_order returns a permutation of the list in
\* which the child of every registered dependency with both ids in the list
\* comes before the parent; dependencies touching an id outside the list are
\* ignored.
C18_OrderIsPermutationChildFirst ==
    /\ (Finished /\ ~HasCycle(r_graph, Ids)) => r_pc = "returned"
    /\ r_pc = "returned" =>
          LET order == r_result[1]
          IN /\ IsPermutation(order, r_input)
             /\ \A e \in EdgesWithin(r_graph, Range(r_input)) :
                   IndexOf(order, e[1]) < IndexOf(order, e[2])

C18_Witness ==
    /\ r_pc = "returned"
    /\ r_input = <<"vpc", "subnet">>
    /\ r_graph["subnet"] = <<"vpc", "instance">>
    /\ r_graph["instance"] = <<"subnet">>
    /\ r_result = <<<<"subnet", "vpc">>>>

\* C19: if the registered dependencies contain a cycle among the requested
\* ids, compute_deletion_order raises 'Circular dependency detected' and
\* returns no order, for cycles of any length.
C19_CycleAlwaysRaises ==
    (Finished /\ HasCycle(r_graph, Range(r_input))) =>
        /\ r_pc = "raised"
        /\ r_error = "Circular dependency detected"
        /\ r_result = <<>>

C19_Witness ==
    /\ r_pc = "raised"
    /\ Len(r_input) = 3
    /\ \A i \in Ids : Len(r_graph[i]) = 1 /\ r_graph[i][1] # i
    /\ r_order = <<>>

\* --------------------------------------------- properties of AuditStorage
\* positions of the log_operation calls made for an id among the first n
LoggedFor(operation_id, n) ==
    {i \in 1..n : st_logged[i].operation_id = operation_id}

LastLoggedFor(operation_id, n) ==
    CHOOSE i \in LoggedFor(operation_id, n) : \A j \in LoggedFor(operation_id, n) : j <= i

\* C20: after any sequence of log_operation calls the store holds at most
\* one audit record per operation_id, and get_operation(id) returns the data
\* of the most recent log_operation call for that id; for an id never logged
\* it returns None.
C20_OneRecordPerIdLastWriteWins ==
    /\ \A id \in OperationIds : Cardinality(FilesOf(st_files, id)) <= 1
    /\ st_got # <<>> =>
          LET id == st_got[1].operation_id
              n == st_got[1].after
          IN IF LoggedFor(id, n) = {}
             THEN st_got[1].result = <<>>
             ELSE st_got[1].result = <<AuditData(st_logged[LastLoggedFor(id, n)])>>

\* ------------------------------------------- properties of two calls in a row
\* the first call was an execute in which every candidate succeeded
FirstRunAllSucceeded ==
    /\ run = 2
    /\ previous[1].method = "execute"
    /\ previous[1].operation.failed_count = 0
    /\ previous[1].operation.skipped_count = 0

\* the second call has computed its candidates
SecondRunCollected == \E i \in DOMAIN calls : calls[i].fn = "collect_current_resources"

\* the resource types the first call tried to delete
FirstRunTypes == {r.resource_type : r \in previous[1].attempted}

Critical == "critical"
High == "high"

SecurityFinding(arn, finding_type, severity) ==
    [resource_arn |-> arn, finding_type |-> finding_type, severity |-> severity]

\* checks a scanner can hold: what execute has found when it returns or raises
CheckPool ==
    {[check_id |-> "s3_public_bucket", raises |-> FALSE,
      found |-> <<SecurityFinding("arn:aws:b1", "s3_public_bucket", Critical)>>],
     [check_id |-> "security_group_open", raises |-> FALSE,
      found |-> <<SecurityFinding("arn:aws:sg1", "security_group_open", High),
                  SecurityFinding("arn:aws:sg2", "security_group_open", High)>>],
     [check_id |-> "rds_public", raises |-> TRUE,
      found |-> <<SecurityFinding("arn:aws:db1", "rds_public", High)>>],
     [check_id |-> "iam_old_keys", raises |-> TRUE, found |-> <<>>],
     [check_id |-> "ec2_imdsv1", raises |-> FALSE, found |-> <<>>]}

\* check.execute(snapshot): the list it returns, none when it raises
ExecuteKeepsFound(check) == check.found

Execute(check) == IF check.raises THEN <<>> ELSE check.found

\* severity_filter is None or finding.severity == severity_filter
Keeps(finding, severity_filter) ==
    severity_filter = <<>> \/ finding.severity = severity_filter[1]

SecurityScanResult(name) == [snapshot_name |-> name, findings |-> <<>>, executed |-> <<>>]

InitScanner ==
    /\ CleanerOff
    /\ PureRestOff
    /\ call_pc = "ready"
    /\ call_args \in [checks : InjectiveSeqs(CheckPool, MaxChecks),
                       severity_filter : {<<>>, <<Critical>>, <<High>>}]
    /\ call_result = <<>>

\* scan(snapshot, severity_filter): the empty result
ScanCall ==
    /\ call_pc = "ready"
    /\ call_result' = <<SecurityScanResult(BaselineName)>>
    /\ call_pc' = "checks"
    /\ UNCHANGED <<cleaner_vars, pure_rest, call_args>>

\* one turn of the loop over self.checks
ScanCheck ==
    /\ call_pc = "checks"
    /\ Len(call_result[1].executed) < Len(call_args.checks)
    /\ LET result == call_result[1]
           check == call_args.checks[Len(result.executed) + 1]
           kept == SelectSeq(Execute(check), LAMBDA f : Keeps(f, call_args.severity_filter))
       IN call_result' = <<[result EXCEPT !.findings = @ \o kept,
                                          !.executed = Append(@, check.check_id)]>>
    /\ UNCHANGED <<cleaner_vars, pure_rest, call_args, call_pc>>

ScanReturn ==
    /\ call_pc = "checks"
    /\ Len(call_result[1].executed) = Len(call_args.checks)
    /\ call_pc' = "done"
    /\ UNCHANGED <<cleaner_vars, pure_rest, call_args, call_result>>

NextScanner == ScanCall \/ ScanCheck \/ ScanReturn

SpecScanner == InitScanner /\ [][NextScanner]_vars

\* ------------------------------------------ SecurityGroupOpenCheck.execute
CRITICAL_PORTS == <<22, 3389, 3306, 5432, 1433, 27017>>

World == "0.0.0.0/0"
SecurityGroup == "ec2:security-group"

\* an entry of IpPermissions; a rule for all traffic has no ports
Permission(from_port, to_port, ip_ranges) ==
    [FromPort |-> from_port, ToPort |-> to_port, IpRanges |-> ip_ranges]

PermissionPool ==
    {Permission(<<22>>, <<22>>, <<World>>),
     Permission(<<0>>, <<65535>>, <<World>>),
     Permission(<<20>>, <<25>>, <<"10.0.0.0/8", World>>),
     Permission(<<3306>>, <<3306>>, <<"10.0.0.0/8">>),
     Permission(<<3389>>, <<3389>>, <<>>),
     Permission(<<>>, <<>>, <<World>>)}

\* _is_open_to_world
IsOpenToWorld(permission) ==
    \E i \in DOMAIN permission.IpRanges : permission.IpRanges[i] = World

\* the critical ports one permission adds to open_ports
PortsOfPermission(permission) ==
    IF permission.FromPort = <<>> \/ permission.ToPort = <<>>
    THEN <<>>
    ELSE SelectSeq(CRITICAL_PORTS,
                   LAMBDA critical_port :
                       /\ permission.FromPort[1] <= critical_port
                       /\ critical_port <= permission.ToPort[1]
                       /\ IsOpenToWorld(permission))

\* _find_open_critical_ports
RECURSIVE FindOpenCriticalPorts(_)
FindOpenCriticalPorts(ip_permissions) ==
    IF ip_permissions = <<>>
    THEN <<>>
    ELSE PortsOfPermission(Head(ip_permissions)) \o FindOpenCriticalPorts(Tail(ip_permissions))

\* the findings execute appends for one resource of the snapshot
FindingsOfResource(resource) ==
    IF resource.resource_type # SecurityGroup \/ resource.raw_config = <<>>
    THEN <<>>
    ELSE LET open_ports == FindOpenCriticalPorts(resource.raw_config[1].IpPermissions)
         IN [i \in DOMAIN open_ports |->
                [resource_arn |-> resource.arn, finding_type |-> "security_group_open",
                 severity |-> High, port |-> open_ports[i]]]

RECURSIVE SecurityGroupOpenCheckExecute(_)
SecurityGroupOpenCheckExecute(resources) ==
    IF resources = <<>>
    THEN <<>>
    ELSE FindingsOfResource(Head(resources)) \o SecurityGroupOpenCheckExecute(Tail(resources))

\* the second resource of a snapshot, when it has one
SecondResources ==
    {[arn |-> "arn:aws:b1", resource_type |-> "s3:bucket",
      raw_config |-> <<[IpPermissions |-> <<Permission(<<22>>, <<22>>, <<World>>)>>]>>],
     [arn |-> "arn:aws:sg2", resource_type |-> SecurityGroup,
      raw_config |-> <<[IpPermissions |-> <<Permission(<<3389>>, <<3389>>, <<World>>)>>]>>]}

InitSgCheck ==
    /\ CleanerOff
    /\ PureRestOff
    /\ call_pc = "ready"
    /\ \E resource_type \in {SecurityGroup, "s3:bucket"},
          raw_config \in {<<>>} \cup {<<[IpPermissions |-> ps]>> :
                                        ps \in InjectiveSeqs(PermissionPool, MaxPermissions)},
          rest \in {<<>>} \cup {<<r>> : r \in SecondResources} :
          call_args = [resources |->
                          <<[arn |-> "arn:aws:sg1", resource_type |-> resource_type,
                             raw_config |-> raw_config]>> \o rest]
    /\ call_result = <<>>

\* SecurityGroupOpenCheck().execute(snapshot)
SgCheckExecute ==
    /\ call_pc = "ready"
    /\ call_result' = <<SecurityGroupOpenCheckExecute(call_args.resources)>>
    /\ call_pc' = "done"
    /\ UNCHANGED <<cleaner_vars, pure_rest, call_args>>

NextSgCheck == SgCheckExecute

SpecSgCheck == InitSgCheck /\ [][NextSgCheck]_vars

\* ---------------------------------------------------- ConfigDiffer.compare
\* configuration values: None, a string, a dict (a function of its keys) and
\* a list, each under its type so that == is equality of the encodings
Null == <<"null">>
Str(s) == <<"str", s>>
Dict(f) == <<"dict", f>>
List(l) == <<"list", l>>

IsDict(v) == v[1] = "dict"
IsList(v) == v[1] = "list"

\* old_value == new_value
IdenticalNever(old_value, new_value) == FALSE

Identical(old_value, new_value) == old_value[1] = new_value[1] /\ old_value = new_value

\* config.get(key)
Get(config, key) == IF key \in DOMAIN config[2] THEN config[2][key] ELSE Null

\* old_list[i] if i < len(old_list) else None
At(list, i) == IF i <= Len(list[2]) THEN list[2][i] ELSE Null

\* a string as the sequence of its pieces, the empty string being <<>>
Text(key) == IF key = "" THEN <<>> ELSE <<key>>

\* f"{field_prefix}.{key}" if field_prefix else key
FieldPath(field_prefix, key) ==
    IF field_prefix = <<>> THEN Text(key) ELSE field_prefix \o <<".">> \o Text(key)

\* f"{field_path}.{i}", i counted from 0
ElementPath(field_path, i) == field_path \o <<".", ToString(i - 1)>>

\* _categorize_change, for an ARN that is not of IAM and the keys of Configs
CategorizeChange(field_path) ==
    IF \E i \in DOMAIN field_path : field_path[i] = "Tags" THEN "tags" ELSE "configuration"

ConfigDiff(resource_arn, field_path, old_value, new_value) ==
    [resource_arn |-> resource_arn, field_path |-> field_path, old_value |-> old_value,
     new_value |-> new_value, category |-> CategorizeChange(field_path)]

\* ConfigDiff.__post_init__ raises ValueError
PostInitRaises(diff) == diff.field_path = <<>>

\* the lists of diffs compare can build, one for each order in which the
\* set of keys is iterated
RECURSIVE Compare(_, _, _, _)
RECURSIVE CompareKeys(_, _, _, _, _)
RECURSIVE CompareLists(_, _, _, _, _)

\* one turn of the loop over all_keys
CompareKey(resource_arn, old_config, new_config, field_prefix, key) ==
    LET field_path == FieldPath(field_prefix, key)
        old_value == Get(old_config, key)
        new_value == Get(new_config, key)
    IN IF Identical(old_value, new_value)
       THEN {<<>>}
       ELSE IF IsDict(old_value) /\ IsDict(new_value)
       THEN Compare(resource_arn, old_value, new_value, field_path)
       ELSE IF IsList(old_value) /\ IsList(new_value)
       THEN {CompareLists(resource_arn, old_value, new_value, field_path, 1)}
       ELSE {<<ConfigDiff(resource_arn, field_path, old_value, new_value)>>}

CompareKeys(resource_arn, old_config, new_config, field_prefix, keys) ==
    IF keys = <<>>
    THEN {<<>>}
    ELSE {first \o rest :
            first \in CompareKey(resource_arn, old_config, new_config, field_prefix, Head(keys)),
            rest \in CompareKeys(resource_arn, old_config, new_config, field_prefix, Tail(keys))}

Compare(resource_arn, old_config, new_config, field_prefix) ==
    UNION {CompareKeys(resource_arn, old_config, new_config, field_prefix, keys) :
              keys \in Orders(DOMAIN old_config[2] \cup DOMAIN new_config[2])}

\* _compare_lists from element i on; a dict inside a list has one key at most,
\* so that compare has one list of diffs for it
CompareLists(resource_arn, old_list, new_list, field_path, i) ==
    IF i > Len(old_list[2]) /\ i > Len(new_list[2])
    THEN <<>>
    ELSE LET element_path == ElementPath(field_path, i)
             old_value == At(old_list, i)
             new_value == At(new_list, i)
             here == IF Identical(old_value, new_value)
                     THEN <<>>
                     ELSE IF IsDict(old_value) /\ IsDict(new_value)
                     THEN CHOOSE diffs \in Compare(resource_arn, old_value, new_value,
                                                   element_path) : TRUE
                     ELSE <<ConfigDiff(resource_arn, element_path, old_value, new_value)>>
         IN here \o CompareLists(resource_arn, old_list, new_list, field_path, i + 1)

ListsUpTo(S, n) == UNION {[1..k -> S] : k \in 0..n}

InnerDicts == {Dict(<<>>), Dict([k \in {"x"} |-> Str("a")]), Dict([k \in {"x"} |-> Str("b")])}

\* what a list of a configuration can hold
Elements == {Null, Str("a"), List(<<Str("a")>>)} \cup InnerDicts

\* what the key "Tags" of a configuration can hold
FieldValues == Elements \cup {List(l) : l \in ListsUpTo(Elements, MaxList)}

\* configurations: "Tags" absent or any field value, the empty key absent, a
\* string or a dict
Configs ==
    {Dict([k \in ks |-> IF k = "Tags" THEN v ELSE w]) :
        ks \in SUBSET {"Tags", ""}, v \in FieldValues,
        w \in {Str("a"), Dict([k \in {"x"} |-> Str("a")]), Dict([k \in {"x"} |-> Str("b")])}}

InitDiffer ==
    /\ CleanerOff
    /\ PureRestOff
    /\ call_pc = "ready"
    /\ call_args \in [resource_arn : {"arn:aws:ec2:i-1"}, old_config : Configs,
                       new_config : Configs]
    /\ call_result = <<>>

\* ConfigDiffer().compare(resource_arn, old_config, new_config): the diffs, or
\* the ValueError of the first ConfigDiff that cannot be built
CompareCall ==
    /\ call_pc = "ready"
    /\ \E diffs \in Compare(call_args.resource_arn, call_args.old_config,
                             call_args.new_config, <<>>) :
          call_result' =
              IF \E i \in DOMAIN diffs : PostInitRaises(diffs[i])
              THEN <<[raised |-> "ValueError", diffs |-> <<>>]>>
              ELSE <<[raised |-> None, diffs |-> diffs]>>
    /\ call_pc' = "done"
    /\ UNCHANGED <<cleaner_vars, pure_rest, call_args>>

NextDiffer == CompareCall

SpecDiffer == InitDiffer /\ [][NextDiffer]_vars

\* ------------------------------------------------- properties of calculate
ArnsOf(resources) == {resources[i].arn : i \in DOMAIN resources}

ModifiedArns(report) ==
    {report.modified_resources[i].resource.arn : i \in DOMAIN report.modified_resources}

\* C22: every DeltaReport calculate returns, for any pair of snapshots and
\* any filters, has unchanged_count >= 0, unchanged_count + len(deleted) +
\* len(modified) = baseline_resource_count, and no ARN in more than one of the
\* added, deleted and modified lists.
C22_DeltaReportCounts ==
    call_pc = "done" =>
        LET report == call_result[1]
        IN /\ UnchangedCount(report) >= 0
           /\ UnchangedCount(report) + Len(report.deleted_resources)
                 + Len(report.modified_resources) = report.baseline_resource_count
           /\ ArnsOf(report.added_resources) \cap ArnsOf(report.deleted_resources) = {}
           /\ ArnsOf(report.added_resources) \cap ModifiedArns(report) = {}
           /\ ArnsOf(report.deleted_resources) \cap ModifiedArns(report) = {}

C22_Witness ==
    /\ call_pc = "done"
    /\ Len(call_result[1].added_resources) = 1
    /\ Len(call_result[1].deleted_resources) = 1
    /\ Len(call_result[1].modified_resources) = 1
    /\ UnchangedCount(call_result[1]) = 0

\* ------------------------------------------------------ properties of scan
\* findings of the checks that return, with a severity the filter lets through
FindingsDue ==
    {f \in UNION {Range(c.found) : c \in {k \in Range(call_args.checks) : ~k.raises}} :
        call_args.severity_filter = <<>> \/ f.severity = call_args.severity_filter[1]}

\* C23: a check whose execute raises contributes no findings and does not
\* stop the scan: every check is executed, and the result holds exactly the
\* findings of the checks that did not fail whose severity equals the filter,
\* all of them when there is no filter, each once.
C23_RaisingCheckIsSkipped ==
    call_pc = "done" =>
        /\ Len(call_result[1].executed) = Len(call_args.checks)
        /\ \A i \in DOMAIN call_args.checks :
              call_result[1].executed[i] = call_args.checks[i].check_id
        /\ Range(call_result[1].findings) = FindingsDue
        /\ Len(call_result[1].findings) = Cardinality(FindingsDue)

C23_Witness ==
    /\ call_pc = "done"
    /\ Len(call_args.checks) = 3
    /\ call_args.checks[1].raises
    /\ call_args.checks[1].found # <<>>
    /\ call_args.severity_filter = <<High>>
    /\ Len(call_result[1].findings) = 2
    /\ \E i \in DOMAIN call_args.checks : call_args.checks[i].check_id = "s3_public_bucket"

\* ------------------------------------- properties of SecurityGroupOpenCheck
\* the security groups of the snapshot that carry a configuration
GroupsChecked ==
    {r \in Range(call_args.resources) : r.resource_type = SecurityGroup /\ r.raw_config # <<>>}

\* some ingress rule of the group opens the port to the world within its range
OpensToWorld(group, port) ==
    \E i \in DOMAIN group.raw_config[1].IpPermissions :
        LET permission == group.raw_config[1].IpPermissions[i]
        IN /\ permission.FromPort # <<>> /\ permission.ToPort # <<>>
           /\ permission.FromPort[1] <= port /\ port <= permission.ToPort[1]
           /\ \E j \in DOMAIN permission.IpRanges : permission.IpRanges[j] = World

FindingsFor(arn, port) ==
    {i \in DOMAIN call_result[1] :
        call_result[1][i].resource_arn = arn /\ call_result[1][i].port = port}

\* C24: for each security group there is exactly one finding per critical
\* port that some ingress rule opens to 0.0.0.0/0 within its port range, one
\* per port whatever the number of rules that open it, and none for a port
\* opened only to other CIDRs.
C24_OneFindingPerOpenPort ==
    call_pc = "done" =>
        \A group \in GroupsChecked : \A port \in Range(CRITICAL_PORTS) :
            Cardinality(FindingsFor(group.arn, port))
                = IF OpensToWorld(group, port) THEN 1 ELSE 0

\* --------------------------------------------------- properties of compare
\* C25: every ConfigDiff compare returns has old_value different from
\* new_value and a field_path that is not empty, and comparing a
\* configuration with itself returns no diff.
C25_DiffsAreRealChanges ==
    call_pc = "done" =>
        /\ \A i \in DOMAIN call_result[1].diffs :
              /\ call_result[1].diffs[i].old_value # call_result[1].diffs[i].new_value
              /\ call_result[1].diffs[i].field_path # <<>>
        /\ call_args.old_config = call_args.new_config
              => call_result[1].raised = None /\ call_result[1].diffs = <<>>

C25_Witness ==
    /\ call_pc = "done"
    /\ call_result[1].raised = None
    /\ Len(call_result[1].diffs) = 3
    /\ \E i \in DOMAIN call_result[1].diffs :
          call_result[1].diffs[i].field_path = <<"Tags", ".", "1", ".", "x">>
    /\ \E i \in DOMAIN call_result[1].diffs :
          call_result[1].diffs[i].field_path = <<"x">>

\* ------------------------------------------- the operation of an execute call
\* execute has entered and not yet returned or raised
ExecuteRunning == method = "execute" /\ pc \in {"confirm", "load", "account", "collect", "loop"}

\* C26: the DeletionOperation of an execute call exists from the entry of
\* execute, PLANNED before the deletion loop and EXECUTING while deletions are
\* attempted, and reaches COMPLETED, PARTIAL or FAILED only at the end.
C26_StatusAdvances ==
    ExecuteRunning =>
        /\ operation # <<>>
        /\ operation[1].status = IF pc = "loop" THEN "executing" ELSE "planned"

\* pairs <<dependent, dependency>> among the live resources: the script of the
\* Glue job is stored in the bucket
DependsOn == {<<U3.arn, U2.arn>>}

DeleteCallOf(arn) == {i \in DeleteCalls : calls[i].resource[1].arn = arn}

\* C27: when a candidate depends on another candidate, execute attempts the
\* deletion of the dependent one before that of the one it depends on.
C27_DependentsDeletedFirst ==
    method = "execute" =>
        \A pair \in DependsOn :
            \A i \in DeleteCallOf(pair[1]), j \in DeleteCallOf(pair[2]) : i < j

\* C28: when log_operation fails at the end of execute, execute still hands
\* its caller the operation with the counts and the status of the run.
C28_AuditFailureKeepsOutcome ==
    (method = "execute" /\ pc = "raised" /\ raised.type = "OSError") =>
        /\ returned # <<>>
        /\ returned = operation

\* C29: when execute is interrupted after some resources were processed, the
\* records of the resources already processed are in the audit log.
C29_ProcessedRecordsSurvive ==
    (method = "execute" /\ pc = "raised" /\ raised.type = "KeyboardInterrupt") =>
        \A k \in DOMAIN deletion_records :
            \E i \in DOMAIN audit :
                \E j \in DOMAIN audit[i].records : audit[i].records[j] = deletion_records[k]

\* C30: preview and execute agree for the same baseline, live resources,
\* filters and rules: execute returns the total_resources and the
\* skipped_count preview returned, and calls delete_resource for exactly the
\* candidates preview found unprotected.
C30_PreviewAgreesWithExecute ==
    (run = 2 /\ previous[1].method = "preview" /\ pc = "returned") =>
        /\ returned[1].total_resources = previous[1].operation.total_resources
        /\ returned[1].skipped_count = previous[1].operation.skipped_count
        /\ AttemptedIn(calls) = previous[1].unprotected

C30_Witness ==
    /\ run = 2
    /\ previous[1].method = "preview"
    /\ pc = "returned"
    /\ returned[1].total_resources = 2
    /\ returned[1].skipped_count = 1
    /\ Cardinality(AttemptedIn(calls)) = 1

====
